---- MODULE Spec2Model ----
(***************************************************************************)
(* A model of the NTP client of src/src/main.rs: the message codec         *)
(* (NTPMessage), the protocol/calendar timestamp conversions, the          *)
(* four-timestamp offset/delay estimator (NTPResult), the exchange         *)
(* ntp_roundtrim, the aggregation check_time/weighted_mean and the         *)
(* CheckNtp arm of main.                                                   *)
(*                                                                         *)
(* The program computes with u32, i64, u64 and f64 values.  TLC's integers *)
(* are 32-bit, so wide integers are kept as little-endian sequences of     *)
(* 15-bit limbs (Big), signed ones as a sign and a magnitude (Z), and an   *)
(* f64 as sign, 53-bit significand and exponent with IEEE-754              *)
(* round-to-nearest-even after every operation (F64).                      *)
(***************************************************************************)
EXTENDS Integers, Sequences, FiniteSets, TLC

--------------------------------------------------------------------------
(* Natural numbers of any width: little-endian limbs, no leading zero limb *)

Base == 2^15

Max(a, b) == IF a >= b THEN a ELSE b
Min(a, b) == IF a <= b THEN a ELSE b

Limb(a, i) == IF i <= Len(a) THEN a[i] ELSE 0

RECURSIVE IntBitLen(_)
IntBitLen(n) == IF n = 0 THEN 0 ELSE 1 + IntBitLen(n \div 2)

LimbBits == IntBitLen(Base) - 1

RECURSIVE BNorm(_)
BNorm(a) ==
  IF a = <<>> THEN a
  ELSE IF a[Len(a)] = 0 THEN BNorm(SubSeq(a, 1, Len(a) - 1)) ELSE a

RECURSIVE BFromInt(_)
BFromInt(n) == IF n = 0 THEN <<>> ELSE <<n % Base>> \o BFromInt(n \div Base)

RECURSIVE BAddC(_, _, _, _)
BAddC(a, b, i, c) ==
  IF i > Len(a) /\ i > Len(b)
  THEN IF c = 0 THEN <<>> ELSE <<c>>
  ELSE LET s == Limb(a, i) + Limb(b, i) + c
       IN  <<s % Base>> \o BAddC(a, b, i + 1, s \div Base)

BAdd(a, b) == BAddC(a, b, 1, 0)

RECURSIVE BSubC(_, _, _, _)
BSubC(a, b, i, c) ==
  IF i > Len(a) THEN <<>>
  ELSE LET d == a[i] - Limb(b, i) - c
       IN  <<d % Base>> \o BSubC(a, b, i + 1, IF d < 0 THEN 1 ELSE 0)

\* a - b, for a >= b
BSub(a, b) == BNorm(BSubC(a, b, 1, 0))

RECURSIVE BCmpAt(_, _, _)
BCmpAt(a, b, i) ==
  IF i = 0 THEN 0
  ELSE IF a[i] > b[i] THEN 1
  ELSE IF a[i] < b[i] THEN -1
  ELSE BCmpAt(a, b, i - 1)

\* -1, 0 or 1 as a < b, a = b or a > b
BCmp(a, b) ==
  IF Len(a) > Len(b) THEN 1
  ELSE IF Len(a) < Len(b) THEN -1
  ELSE BCmpAt(a, b, Len(a))

RECURSIVE BMulSmallC(_, _, _, _)
BMulSmallC(a, k, i, c) ==
  IF i > Len(a) THEN (IF c = 0 THEN <<>> ELSE <<c>>)
  ELSE LET p == a[i] * k + c
       IN  <<p % Base>> \o BMulSmallC(a, k, i + 1, p \div Base)

\* a * k, for 0 <= k <= Base
BMulSmall(a, k) == IF k = 0 THEN <<>> ELSE BMulSmallC(a, k, 1, 0)

Zeros(n) == [i \in 1..n |-> 0]

\* a * Base^n
BShlLimbs(a, n) == IF a = <<>> THEN a ELSE Zeros(n) \o a

RECURSIVE BMulAt(_, _, _)
BMulAt(a, b, j) ==
  IF j > Len(b) THEN <<>>
  ELSE BAdd(BShlLimbs(BMulSmall(a, b[j]), j - 1), BMulAt(a, b, j + 1))

BMul(a, b) == BMulAt(a, b, 1)

\* <<a \div k, a % k>> for 0 < k <= Base; r is the remainder carried down
RECURSIVE BDivSmallAt(_, _, _, _)
BDivSmallAt(a, k, i, r) ==
  IF i = 0 THEN <<<<>>, r>>
  ELSE LET cur  == r * Base + a[i]
           rest == BDivSmallAt(a, k, i - 1, cur % k)
       IN  <<Append(rest[1], cur \div k), rest[2]>>
BDivModSmall(a, k) ==
  LET qr == BDivSmallAt(a, k, Len(a), 0) IN <<BNorm(qr[1]), qr[2]>>

\* a * 2^n
BShl(a, n) == BShlLimbs(BMulSmall(a, 2^(n % LimbBits)), n \div LimbBits)

\* a \div 2^n
BShr(a, n) ==
  IF n \div LimbBits >= Len(a) THEN <<>>
  ELSE BDivModSmall(SubSeq(a, n \div LimbBits + 1, Len(a)), 2^(n % LimbBits))[1]

\* the number of bits of a: 0 for 0, else floor(log2 a) + 1
BBitLen(a) ==
  IF a = <<>> THEN 0 ELSE LimbBits * (Len(a) - 1) + IntBitLen(a[Len(a)])

\* the largest q <= qhat with b * q <= r
RECURSIVE BFixDigit(_, _, _)
BFixDigit(r, b, qhat) ==
  IF BCmp(BMulSmall(b, qhat), r) <= 0 THEN qhat ELSE BFixDigit(r, b, qhat - 1)

\* Schoolbook long division, a limb of a at a time from the top: q holds the
\* quotient limbs so far (least significant first) and r the remainder of the
\* limbs of a above limb i.  r2 is r with limb i brought down; d is r2 \div b,
\* a single limb as r < b, estimated from the top limbs (at most 2 too large
\* when b's top limb is Base / 2 or more) and then corrected.
RECURSIVE BDivModAt(_, _, _, _, _)
BDivModAt(a, b, i, q, r) ==
  IF i = 0 THEN <<q, r>>
  ELSE LET r2 == BNorm(<<a[i]>> \o r)
           d  == BFixDigit(r2, b,
                   Min(Base - 1, (Limb(r2, Len(b) + 1) * Base + Limb(r2, Len(b)))
                                   \div b[Len(b)]))
       IN  BDivModAt(a, b, i - 1, <<d>> \o q, BSub(r2, BMulSmall(b, d)))

\* <<a \div b, a % b>> for b > 0: both are scaled by 2^s so that b's top limb
\* has its top bit set, which leaves the quotient unchanged
BDivMod(a, b) ==
  LET s  == LimbBits - IntBitLen(b[Len(b)])
      qr == BDivModAt(BShl(a, s), BShl(b, s), Len(BShl(a, s)), <<>>, <<>>)
  IN  <<BNorm(qr[1]), BShr(qr[2], s)>>

\* the value of a, for a < 2^31
RECURSIVE BToInt(_)
BToInt(a) == IF a = <<>> THEN 0 ELSE a[1] + Base * BToInt(Tail(a))

\* a decimal literal, most significant digit first
RECURSIVE BFromDigits(_)
BFromDigits(ds) ==
  IF ds = <<>> THEN <<>>
  ELSE BAdd(BMulSmall(BFromDigits(SubSeq(ds, 1, Len(ds) - 1)), 10),
            BFromInt(ds[Len(ds)]))

--------------------------------------------------------------------------
(* Signed integers of any width (i64, isize): a sign and a magnitude; zero  *)
(* is never negative                                                        *)

ZMake(neg, mag) == [neg |-> neg /\ mag # <<>>, mag |-> mag]
ZFromInt(n) == IF n < 0 THEN ZMake(TRUE, BFromInt(-n)) ELSE ZMake(FALSE, BFromInt(n))
ZFromBig(a) == ZMake(FALSE, a)
ZNeg(a) == ZMake(~a.neg, a.mag)
ZIsZero(a) == a.mag = <<>>

\* a + b for a and b of different signs, c the comparison of the magnitudes
ZAddMixed(a, b, c) ==
  ZMake(IF c >= 0 THEN a.neg ELSE b.neg,
        BSub(IF c >= 0 THEN a.mag ELSE b.mag, IF c >= 0 THEN b.mag ELSE a.mag))

ZAdd(a, b) ==
  IF a.neg = b.neg THEN ZMake(a.neg, BAdd(a.mag, b.mag))
  ELSE ZAddMixed(a, b, BCmp(a.mag, b.mag))

ZSub(a, b) == ZAdd(a, ZNeg(b))

\* -1, 0 or 1 as a < b, a = b or a > b
ZCmp(a, b) ==
  IF a.neg /\ ~b.neg THEN -1
  ELSE IF ~a.neg /\ b.neg THEN 1
  ELSE BCmp(IF a.neg THEN b.mag ELSE a.mag, IF a.neg THEN a.mag ELSE b.mag)

\* a * k, for 0 <= k <= Base
ZMulSmall(a, k) == ZMake(a.neg, BMulSmall(a.mag, k))

\* Rust's a / k and a % k on integers (the quotient truncates toward zero and
\* the remainder has the sign of a), for 0 < k <= Base
ZDivSmall(a, k) == ZMake(a.neg, BDivModSmall(a.mag, k)[1])
ZRemSmall(a, k) ==
  (IF a.neg THEN -1 ELSE 1) * BDivModSmall(a.mag, k)[2]



--------------------------------------------------------------------------
(* IEEE-754 binary64.  A finite value is (-1)^s * m * 2^e with m = 0, or    *)
(* m of exactly 53 bits, or e = F64MinExp and m shorter (subnormal).        *)

F64MantBits == 53
F64MinExp == -1074
F64MaxExp == 1023

F64Zero(s) == [k |-> "fin", s |-> s, m |-> <<>>, e |-> 0]
F64Inf(s) == [k |-> "inf", s |-> s, m |-> <<>>, e |-> 0]
F64NaN == [k |-> "nan", s |-> 0, m |-> <<>>, e |-> 0]

\* f64::is_finite
F64IsFinite(x) == x.k = "fin"

SignXor(s, t) == IF s = t THEN 0 ELSE 1

\* (-1)^s * m * 2^e for m of at most 53 bits, infinite when too large
F64Fin(s, m, e) ==
  IF m = <<>> THEN F64Zero(s)
  ELSE IF e + BBitLen(m) - 1 > F64MaxExp THEN F64Inf(s)
  ELSE [k |-> "fin", s |-> s, m |-> m, e |-> e]

\* the same for a rounded m, which is 2^53 when the rounding carried out of
\* the significand
F64Pack(s, m, e) ==
  IF BBitLen(m) > F64MantBits THEN F64Fin(s, BShr(m, 1), e + 1)
  ELSE F64Fin(s, m, e)

\* q or q + 1: c compares the part cut off with half a unit of q
F64RoundUp(q, c, sticky) ==
  IF c > 0 \/ (c = 0 /\ (sticky \/ q[1] % 2 = 1)) THEN BAdd(q, <<1>>) ELSE q

\* (M + t) / 2^sh rounded to the nearest integer, ties to even, q its
\* integer part
F64NearestTo(M, sh, sticky, q) ==
  F64RoundUp(q, BCmp(BSub(M, BShl(q, sh)), BShl(<<1>>, sh - 1)), sticky)

F64RoundBy(s, M, e, sticky, sh) ==
  F64Pack(s, IF sh <= 0 THEN BShl(M, -sh) ELSE F64NearestTo(M, sh, sticky, BShr(M, sh)),
          e + sh)

\* The f64 nearest to (-1)^s * (M + t) * 2^e, ties to even, where t = 0 when
\* sticky is FALSE and 0 < t < 1 when it is TRUE (callers pass sticky only
\* with an M of 55 bits or more)
F64Round(s, M, e, sticky) ==
  IF M = <<>> THEN F64Zero(s)
  ELSE F64RoundBy(s, M, e, sticky, Max(BBitLen(M) - F64MantBits, F64MinExp - e))

\* i64 as f64
F64FromZ(z) == F64Round(IF z.neg THEN 1 ELSE 0, z.mag, 0, FALSE)
\* a as f64 for a < 2^53, which is exact: u32 as f64 and the literals
F64FromBig(a) ==
  F64Fin(0, BShl(a, F64MantBits - BBitLen(a)), BBitLen(a) - F64MantBits)
\* 2_f64.powi(n), for a normal 2^n
F64Pow2(n) == F64Fin(0, BShl(<<1>>, F64MantBits - 1), n - F64MantBits + 1)

\* the exact x + y for finite non-zero x and y, as sign, magnitude, exponent
\* and sticky bit.  Exponents at most 60 apart: the sum of the aligned
\* significands.  Otherwise the smaller operand is less than an eighth of a
\* unit in the last place of the larger and only makes the rounding sticky.
F64SumNear(x, y, e) ==
  [z |-> ZAdd(ZMake(x.s = 1, BShl(x.m, x.e - e)), ZMake(y.s = 1, BShl(y.m, y.e - e))),
   s |-> x.s, e |-> e, sticky |-> FALSE]

F64SumFar(x, y) ==
  [z |-> ZMake(x.s = 1, IF x.s = y.s THEN BShl(x.m, 3) ELSE BSub(BShl(x.m, 3), <<1>>)),
   s |-> x.s, e |-> x.e - 3, sticky |-> TRUE]

F64ExactSum(x, y) ==
  IF x.e > y.e + 60 THEN F64SumFar(x, y)
  ELSE IF y.e > x.e + 60 THEN F64SumFar(y, x)
  ELSE F64SumNear(x, y, Min(x.e, y.e))

\* a zero sum of opposite signs is +0.0
F64RoundSum(r) ==
  F64Round(IF r.z.mag = <<>> THEN 0 ELSE IF r.z.neg THEN 1 ELSE 0,
           r.z.mag, r.e, r.sticky)

\* x + y
F64Add(x, y) ==
  IF x.k = "nan" \/ y.k = "nan" THEN F64NaN
  ELSE IF x.k = "inf" /\ y.k = "inf" THEN (IF x.s = y.s THEN x ELSE F64NaN)
  ELSE IF x.k = "inf" THEN x
  ELSE IF y.k = "inf" THEN y
  ELSE IF x.m = <<>> /\ y.m = <<>> THEN F64Zero(IF x.s = y.s THEN x.s ELSE 0)
  ELSE IF x.m = <<>> THEN y
  ELSE IF y.m = <<>> THEN x
  ELSE F64RoundSum(F64ExactSum(x, y))

\* x * y
F64Mul(x, y) ==
  IF x.k = "nan" \/ y.k = "nan" THEN F64NaN
  ELSE IF x.k = "inf" \/ y.k = "inf"
  THEN (IF (x.k = "fin" /\ x.m = <<>>) \/ (y.k = "fin" /\ y.m = <<>>) THEN F64NaN ELSE F64Inf(SignXor(x.s, y.s)))
  ELSE IF x.m = <<>> \/ y.m = <<>> THEN F64Zero(SignXor(x.s, y.s))
  ELSE F64Round(SignXor(x.s, y.s), BMul(x.m, y.m), x.e + y.e, FALSE)

\* the quotient of the significands x.m * 2^k and y.m, rounded: a non-zero
\* remainder makes the rounding sticky
F64RoundQuot(s, qr, e) == F64Round(s, qr[1], e, qr[2] # <<>>)

\* the quotient is taken to 55 bits or more
F64DivBy(x, y, k) ==
  F64RoundQuot(SignXor(x.s, y.s), BDivMod(BShl(x.m, k), y.m), x.e - y.e - k)

\* x / y
F64Div(x, y) ==
  IF x.k = "nan" \/ y.k = "nan" THEN F64NaN
  ELSE IF x.k = "inf"
  THEN (IF y.k = "inf" THEN F64NaN ELSE F64Inf(SignXor(x.s, y.s)))
  ELSE IF y.k = "inf" THEN F64Zero(SignXor(x.s, y.s))
  ELSE IF y.m = <<>>
  THEN (IF x.m = <<>> THEN F64NaN ELSE F64Inf(SignXor(x.s, y.s)))
  ELSE IF x.m = <<>> THEN F64Zero(SignXor(x.s, y.s))
  ELSE F64DivBy(x, y, 56 + Max(0, BBitLen(y.m) - BBitLen(x.m)))

\* the integer part of |x|, for a finite x
F64TruncMag(x) == IF x.e >= 0 THEN BShl(x.m, x.e) ELSE BShr(x.m, -x.e)

\* u32::MAX
U32_MAX == BSub(BShl(<<1>>, 32), <<1>>)
\* 2^63: i64::MAX + 1 and -i64::MIN
I64_LIMIT == BShl(<<1>>, 63)

\* the integer part of x as a u32, for x > 0
F64TruncU32(x, top) ==
  IF x.k = "inf" \/ x.e > 32 \/ BCmp(F64TruncMag(x), top) > 0 THEN top
  ELSE F64TruncMag(x)

\* f64 as u32: truncates toward zero, saturates, and takes NaN to 0
F64AsU32(x) ==
  IF x.k = "nan" \/ x.s = 1 THEN <<>> ELSE F64TruncU32(x, U32_MAX)

\* (-1)^s * t as an isize, saturated; lim is 2^63
ZSaturate(s, t, lim) ==
  IF BCmp(t, lim) < 0 THEN ZMake(s = 1, t)
  ELSE IF s = 1 THEN ZMake(TRUE, lim)
  ELSE ZMake(FALSE, BSub(lim, <<1>>))

\* f64 as isize (64-bit): truncates toward zero, saturates at -2^63 and
\* 2^63 - 1, and takes NaN to 0
F64AsIsize(x) ==
  IF x.k = "nan" THEN ZFromInt(0)
  ELSE ZSaturate(x.s, IF x.k = "inf" \/ x.e > 64 THEN I64_LIMIT ELSE F64TruncMag(x),
                 I64_LIMIT)

--------------------------------------------------------------------------
(* Fixed-width integers and bytes *)

\* the low n bits of a
BLowBits(a, n) == BSub(a, BShl(BShr(a, n), n))

\* the two's complement of a value whose low n bits are low
ZWrapLow(neg, low, n) ==
  IF neg /\ low # <<>> THEN BSub(BShl(<<1>>, n), low) ELSE low

\* i64 as u32, i64 as u64 (isize as u64): two's complement, wrapping
ZWrap(z, n) == ZWrapLow(z.neg, BLowBits(z.mag, n), n)

ZAsU32(z) == ZWrap(z, 32)
ZAsU64(z) == ZWrap(z, 64)

\* bitwise or of two bytes
RECURSIVE BitOr(_, _)
BitOr(a, b) ==
  IF a = 0 THEN b
  ELSE IF b = 0 THEN a
  ELSE 2 * BitOr(a \div 2, b \div 2) + Max(a % 2, b % 2)

\* the big-endian value of a sequence of bytes
RECURSIVE BFromBytes(_)
BFromBytes(bs) ==
  IF bs = <<>> THEN <<>>
  ELSE BAdd(BMulSmall(BFromBytes(SubSeq(bs, 1, Len(bs) - 1)), 256),
            BFromInt(bs[Len(bs)]))

\* the n big-endian bytes of a, for a < 256^n
RECURSIVE BToBytes(_, _)
BToBytes(a, n) ==
  IF n = 0 THEN <<>>
  ELSE LET qr == BDivModSmall(a, 256) IN Append(BToBytes(qr[1], n - 1), qr[2])

\* Rust's a / b on integers (truncates toward zero), for b > 0
TruncDiv(a, b) == IF a >= 0 THEN a \div b ELSE -((-a) \div b)

\* Result and Option values, and a panic in place of a value
Ok(v) == [tag |-> "Ok", val |-> v]
Err == [tag |-> "Err", val |-> <<>>]
Panic == [tag |-> "Panic", val |-> <<>>]

\* Option::unwrap, Result::unwrap, Option::expect
Unwrap(r) == IF r.tag = "Ok" THEN r ELSE Panic

--------------------------------------------------------------------------
(* src/src/main.rs: constants, NTPTimestamp, NTPMessage *)

NTP_MESSAGE_LENGTH == 48
\* 2_208_988_800
NTP_TO_UNIX_SECONDS == ZFromBig(BFromDigits(<<2, 2, 0, 8, 9, 8, 8, 8, 0, 0>>))

NANOS_PER_SEC == 1000000000
NANOS_PER_MILLI == 1000000
MILLIS_PER_SEC == 1000

NTPTimestamp(seconds, fraction) == [seconds |-> seconds, fraction |-> fraction]

\* NTPMessage::new: 48 zero bytes.  data[i] of the source is data[i + 1] here.
NTPMessage_new == [i \in 1..NTP_MESSAGE_LENGTH |-> 0]

LEAP_INDICATOR == 0
\* 0b_00_011_000
VERSION == 24
\* 0b_00_000_011
MODE == 3

\* a client header with the version field of NTP version 4, against which the
\* check of the request is tried
NTPMessage_clientV4 ==
  [NTPMessage_new EXCEPT ![1] = BitOr(@, BitOr(LEAP_INDICATOR, BitOr(32, MODE)))]

\* NTPMessage::client
NTPMessage_client ==
  [NTPMessage_new EXCEPT ![1] = BitOr(@, BitOr(LEAP_INDICATOR, BitOr(VERSION, MODE)))]

\* ReadBytesExt::read_u32::<BigEndian> on a byte slice: the value and the rest
\* of the slice, or an error when fewer than 4 bytes are left
read_u32(reader) ==
  IF Len(reader) < 4 THEN Err
  ELSE Ok([value |-> BFromBytes(SubSeq(reader, 1, 4)),
           rest  |-> SubSeq(reader, 5, Len(reader))])

\* let fraction = reader.read_u32::<BigEndian>()?; Ok(NTPTimestamp { .. })
parse_fraction(seconds, fraction) ==
  IF fraction.tag # "Ok" THEN Err
  ELSE Ok(NTPTimestamp(seconds.val.value, fraction.val.value))

\* let seconds = reader.read_u32::<BigEndian>()?;
parse_seconds(seconds) ==
  IF seconds.tag # "Ok" THEN Err
  ELSE parse_fraction(seconds, read_u32(seconds.val.rest))

\* NTPMessage::parse_timestamp: the slice &self.data[i..i + 8] panics when
\* i + 8 exceeds the length of data
parse_timestamp(data, i) ==
  IF i + 8 > Len(data) THEN Panic
  ELSE parse_seconds(read_u32(SubSeq(data, i + 1, i + 8)))

\* NTPMessage::rx_time (t2) and NTPMessage::tx_time (t3)
rx_time(data) == parse_timestamp(data, 32)
tx_time(data) == parse_timestamp(data, 40)

--------------------------------------------------------------------------
(* chrono's DateTime<Utc> (whole seconds since 1970 and nanoseconds) and    *)
(* TimeDelta (whole seconds, rounded down, and 0 <= nanos < 10^9), as the   *)
(* program uses them                                                        *)

DateTime(secs, nanos) == [secs |-> secs, nanos |-> nanos]
Duration(secs, nanos) == [secs |-> secs, nanos |-> nanos]

\* DateTime::<Utc>::MIN_UTC and MAX_UTC in seconds: -262143-01-01T00:00:00
\* and +262142-12-31T23:59:59
MIN_UTC_SECS == ZNeg(ZFromBig(BFromDigits(<<8, 3, 3, 4, 6, 0, 1, 3, 1, 5, 2, 0, 0>>)))
MAX_UTC_SECS == ZFromBig(BFromDigits(<<8, 2, 1, 0, 2, 6, 6, 8, 7, 6, 7, 9, 9>>))

\* whether chrono can represent a time secs seconds from 1970
InUtcRange(secs) == ZCmp(secs, MIN_UTC_SECS) >= 0 /\ ZCmp(secs, MAX_UTC_SECS) <= 0


\* Utc.timestamp_opt(secs, nsecs), nsecs a u32: None when the seconds are out
\* of chrono's range, or the nanoseconds are 2 * 10^9 or more, or 10^9 or
\* more outside a leap second (second 59 of a minute)
timestamp_opt(secs, nsecs) ==
  IF ~InUtcRange(secs) THEN Err
  ELSE IF BCmp(nsecs, BFromInt(2 * NANOS_PER_SEC)) >= 0 THEN Err
  ELSE IF BToInt(nsecs) >= NANOS_PER_SEC /\ ZRemSmall(secs, 60) % 60 # 59 THEN Err
  ELSE Ok(DateTime(secs, BToInt(nsecs)))

\* the conversion without its division by 2^32, against which the check of
\* the extraction is tried
DateTimeFromNTPUnscaled(ntp) ==
  LET secs   == ZSub(ZFromBig(ntp.seconds), NTP_TO_UNIX_SECONDS)
      nanos0 == F64FromBig(ntp.fraction)
      nanos1 == F64Mul(nanos0, F64FromBig(BFromInt(NANOS_PER_SEC)))
  IN  Unwrap(timestamp_opt(secs, F64AsU32(nanos1)))

\* impl From<NTPTimestamp> for DateTime<Utc>; the unwrap panics on None
DateTimeFromNTP(ntp) ==
  LET secs   == ZSub(ZFromBig(ntp.seconds), NTP_TO_UNIX_SECONDS)
      nanos0 == F64FromBig(ntp.fraction)
      nanos1 == F64Mul(nanos0, F64FromBig(BFromInt(NANOS_PER_SEC)))
      nanos2 == F64Div(nanos1, F64Pow2(32))
  IN  Unwrap(timestamp_opt(secs, F64AsU32(nanos2)))

\* impl From<DateTime<Utc>> for NTPTimestamp
NTPFromDateTime(utc) ==
  LET secs      == ZAdd(utc.secs, NTP_TO_UNIX_SECONDS)
      fraction0 == F64FromBig(BFromInt(utc.nanos))
      fraction1 == F64Mul(fraction0, F64Pow2(32))
      fraction2 == F64Div(fraction1, F64FromBig(BFromInt(NANOS_PER_SEC)))
  IN  NTPTimestamp(ZAsU32(secs), F64AsU32(fraction2))

\* a TimeDelta of secs seconds and nanos nanoseconds, -10^9 < nanos < 2 * 10^9
Normalized(secs, nanos) ==
  Duration(ZAdd(secs, ZFromInt(nanos \div NANOS_PER_SEC)), nanos % NANOS_PER_SEC)

\* DateTime - DateTime
DateTimeSub(a, b) == Normalized(ZSub(a.secs, b.secs), a.nanos - b.nanos)

\* TimeDelta + TimeDelta
DurationAdd(a, b) == Normalized(ZAdd(a.secs, b.secs), a.nanos + b.nanos)

\* TimeDelta - TimeDelta
DurationSub(a, b) == Normalized(ZSub(a.secs, b.secs), a.nanos - b.nanos)

\* TimeDelta / 2 (impl Div<i32>): the seconds are divided truncating, the
\* carried second and the nanoseconds are halved, and the result is
\* normalised
DurationHalf(a) ==
  LET secs  == ZDivSmall(a.secs, 2)
      carry == ZRemSmall(a.secs, 2)
      extra == TruncDiv(carry * NANOS_PER_SEC, 2)
      nanos == TruncDiv(a.nanos, 2) + extra
  IN  Normalized(secs, nanos)

\* TimeDelta::num_milliseconds: whole milliseconds, truncated toward zero
num_milliseconds(a) ==
  LET adjust     == a.secs.neg /\ a.nanos > 0
      num_secs   == IF adjust THEN ZAdd(a.secs, ZFromInt(1)) ELSE a.secs
      nanos_mod  == IF adjust THEN a.nanos - NANOS_PER_SEC ELSE a.nanos
      secs_part  == ZMulSmall(num_secs, MILLIS_PER_SEC)
      nanos_part == TruncDiv(nanos_mod, NANOS_PER_MILLI)
  IN  ZAdd(secs_part, ZFromInt(nanos_part))

--------------------------------------------------------------------------
(* NTPResult *)

NTPResult(t1, t2, t3, t4) == [t1 |-> t1, t2 |-> t2, t3 |-> t3, t4 |-> t4]

\* NTPResult::delay: ((t4 - t1) - (t3 - t2)).num_milliseconds()
delay(r) ==
  num_milliseconds(DurationSub(DateTimeSub(r.t4, r.t1), DateTimeSub(r.t3, r.t2)))

\* NTPResult::offset: (((t2 - t1) + (t4 - t3)) / 2).num_milliseconds()
offset(r) ==
  num_milliseconds(
    DurationHalf(DurationAdd(DateTimeSub(r.t2, r.t1), DateTimeSub(r.t4, r.t3))))

--------------------------------------------------------------------------
(* weighted_mean *)

\* Iterator::sum over f64, left to right from 0.0
RECURSIVE F64Sum(_)
F64Sum(xs) ==
  IF xs = <<>> THEN F64Zero(0)
  ELSE F64Add(F64Sum(SubSeq(xs, 1, Len(xs) - 1)), xs[Len(xs)])

\* values.iter().zip(weights.iter()).map(|(value, weight)| value * weight)
ZipMul(values, weights) ==
  [i \in 1..Min(Len(values), Len(weights)) |-> F64Mul(values[i], weights[i])]

\* a mean that leaves the weights out of the sum of the values, against which
\* the check of the aggregate is tried
weighted_meanUnweighted(values, weights) ==
  F64Div(F64Sum(values), F64Sum(weights))

weighted_mean(values, weights) ==
  LET weighted_sum == F64Sum(ZipMul(values, weights))
      total_weight == F64Sum(weights)
  IN  F64Div(weighted_sum, total_weight)

--------------------------------------------------------------------------
(* check_time's weighting loop and main's report, as functions of the data *)

\* let weight = 1_000_000.0 / (delay * delay);
Weight(del) == F64Div(F64FromBig(BFromInt(1000000)), F64Mul(del, del))

\* if weight.is_finite() { offsets.push(offset); offset_weights.push(weight); }
PushIfFinite(lists, off, weight) ==
  IF F64IsFinite(weight)
  THEN [offsets |-> Append(lists.offsets, off),
        offset_weights |-> Append(lists.offset_weights, weight)]
  ELSE lists

\* let offset = time.offset() as f64; let delay = time.delay() as f64; ..
WeighSample(lists, off, del) ==
  PushIfFinite(lists, F64FromZ(off), Weight(F64FromZ(del)))

\* an iteration without the test of the weight, against which the check of
\* the weighting loop is tried
WeighStepUnfiltered(lists, time) ==
  [offsets |-> Append(lists.offsets, F64FromZ(offset(time))),
   offset_weights |-> Append(lists.offset_weights, Weight(F64FromZ(delay(time))))]

\* one iteration of `for time in &times`: the lists after it
WeighStep(lists, time) == WeighSample(lists, offset(time), delay(time))

\* std::time::Duration::from_millis(millis), millis a u64
StdDurationFromMillis(millis) ==
  LET qr == BDivModSmall(millis, MILLIS_PER_SEC)
  IN  [secs |-> qr[1], nanos |-> qr[2] * NANOS_PER_MILLI]

\* TimeDelta::MAX is i64::MAX milliseconds: 9223372036854775.807 s
MAX_DELTA_SECS == BFromDigits(<<9, 2, 2, 3, 3, 7, 2, 0, 3, 6, 8, 5, 4, 7, 7, 5>>)
MAX_DELTA_NANOS == 807000000

\* TimeDelta::from_std: an error for more than TimeDelta::MAX
from_std(d) ==
  IF \/ BCmp(d.secs, MAX_DELTA_SECS) > 0
     \/ (d.secs = MAX_DELTA_SECS /\ d.nanos > MAX_DELTA_NANOS)
  THEN Err
  ELSE Ok(Duration(ZFromBig(d.secs), d.nanos))

\* the DateTime at the TimeDelta t from 1970, None out of chrono's range
DateTimeAt(t) == IF InUtcRange(t.secs) THEN Ok(DateTime(t.secs, t.nanos)) ELSE Err

\* DateTime<Utc> + std::time::Duration (plus) and DateTime<Utc> -
\* std::time::Duration, td the duration through TimeDelta::from_std: both
\* `expect` the conversion and then checked_add_signed / checked_sub_signed
DateTimeShift(dt, td, plus) ==
  IF td.tag # "Ok" THEN Panic
  ELSE Unwrap(DateTimeAt(IF plus
                         THEN DurationAdd(Duration(dt.secs, dt.nanos), td.val)
                         ELSE DurationSub(Duration(dt.secs, dt.nanos), td.val)))

DateTimeAddStd(dt, d) == DateTimeShift(dt, from_std(d), TRUE)
DateTimeSubStd(dt, d) == DateTimeShift(dt, from_std(d), FALSE)

\* isize::is_positive
is_positive(z) == ~z.neg /\ ~ZIsZero(z)

\* println!("{now}  ({sign}{:?})", adjust), or the panic of the addition
Printed(now2, sign, adjust) ==
  IF now2.tag # "Ok" THEN Panic
  ELSE Ok([now |-> now2.val, sign |-> sign, adjust |-> adjust])

\* let now = if offset.is_positive() { Utc::now() + adjust } else { .. };
\* let sign = if offset.is_positive() { "+" } else { "-" };
Adjusted(positive, adjust, clock) ==
  Printed(IF positive THEN DateTimeAddStd(clock, adjust)
          ELSE DateTimeSubStd(clock, adjust),
          IF positive THEN "+" ELSE "-", adjust)

\* let adjust = Duration::from_millis(offset as u64);
CheckNtpAdjust(off, clock) ==
  Adjusted(is_positive(off), StdDurationFromMillis(ZAsU64(off)), clock)

\* The Action::CheckNtp arm of main, from check_time's result (always Ok, so
\* its unwrap does not panic) and the clock reading: what is printed, or a
\* panic
CheckNtpReport(avg_offset, clock) == CheckNtpAdjust(F64AsIsize(avg_offset), clock)

--------------------------------------------------------------------------
(* The environment of a run: the local clock and the servers' answers *)

\* check_time's server list
servers ==
  <<"time.nist.gov", "time.apple.com", "time.euro.apple.com",
    "time.google.com", "time2.google.com">>

\* the local clock when the program starts: 2026-11-06T08:00:00.998765432Z
StartClock == DateTime(ZFromBig(BFromDigits(<<1, 7, 9, 4, 1, 2, 4, 8, 0, 0>>)), 998765432)

\* dt + ms milliseconds, for the clock and the servers' clocks
DateTimeAddMillis(dt, ms) ==
  Normalized(dt.secs, dt.nanos + ms * NANOS_PER_MILLI)

\* How an answered exchange can go: the round trip takes lat ms, the server
\* holds the request for proc ms by its own clock, which is skew ms ahead of
\* the local one; zero marks a datagram too short to reach the timestamps,
\* which leaves the zeroed response buffer as it was.
ScenarioTable ==
  << [lat |-> 0,  proc |-> 0, skew |-> 5,  zero |-> FALSE],
     [lat |-> 4,  proc |-> 0, skew |-> -7, zero |-> FALSE],
     [lat |-> 2,  proc |-> 6, skew |-> 3,  zero |-> FALSE],
     [lat |-> 3,  proc |-> 0, skew |-> 0,  zero |-> TRUE],
     [lat |-> 20, proc |-> 1, skew |-> 0,  zero |-> FALSE],
     [lat |-> 7,  proc |-> 2, skew |-> 11, zero |-> FALSE] >>

\* the scenarios a run draws from
NumScenarios == 3

\* the read timeout of ntp_roundtrim, in ms
TimeoutMillis == 1000

TimestampBytes(ntp) == BToBytes(ntp.seconds, 4) \o BToBytes(ntp.fraction, 4)

\* the wire form of the server's receive and transmit times
StampBytes(stamps) ==
  [i \in DOMAIN stamps |-> TimestampBytes(NTPFromDateTime(stamps[i]))]

\* The 48 bytes of an answer (LI 0, VN 3, mode 4 in byte 0, the receive
\* timestamp in bytes 32..39, the transmit timestamp in bytes 40..47)
Answer(stamps) == <<28>> \o Zeros(31) \o stamps[1] \o stamps[2]

\* The response buffer after recv_from in scenario sc, the request sent at
\* sent_at by the local clock
ScenarioResponse(sc, rx) ==
  IF sc.zero THEN NTPMessage_new
  ELSE Answer(StampBytes(<<rx, DateTimeAddMillis(rx, sc.proc)>>))

ServerResponse(k, sent_at) ==
  ScenarioResponse(ScenarioTable[k],
                   DateTimeAddMillis(sent_at, (ScenarioTable[k].lat \div 2)
                                              + ScenarioTable[k].skew))

--------------------------------------------------------------------------
(* State *)

None == [tag |-> "None", val |-> <<>>]

VARIABLES
  pc,              \* where main / check_time / ntp_roundtrim stands
  srv,             \* index of the server the `for server in servers` loop is at
  now,             \* the local clock (Utc::now())
  request,         \* ntp_roundtrim: request.data
  response,        \* ntp_roundtrim: response.data
  sent,            \* the bytes handed to udp.send, None before
  t1,              \* ntp_roundtrim: t1
  t4,              \* ntp_roundtrim: t4
  times,           \* check_time: times
  attempts,        \* the servers ntp_roundtrim was called for, in order
  offsets,         \* check_time: offsets
  offset_weights,  \* check_time: offset_weights
  wi,              \* index of the `for time in &times` loop
  result,          \* what check_time returned, None before
  report,          \* what main printed, None before
  panicAt,         \* the call that panicked, "" if none
  arg,             \* the argument of a function examined on its own
  op,              \* the function applied to arg last, "" before
  res              \* what it returned, None before

runVars ==
  <<pc, srv, now, request, response, sent, t1, t4, times, attempts, offsets,
    offset_weights, wi, result, report, panicAt>>

callVars == <<arg, op, res>>

vars == <<runVars, callVars>>

\* the state before anything has run, at the start of main with
\* Action::CheckNtp (start = "for") or with no run at all (start = "idle")
RunStart(start) ==
  /\ pc = start
  /\ srv = 1
  /\ now = StartClock
  /\ request = None
  /\ response = None
  /\ sent = None
  /\ t1 = None
  /\ t4 = None
  /\ times = <<>>
  /\ attempts = <<>>
  /\ offsets = <<>>
  /\ offset_weights = <<>>
  /\ wi = 1
  /\ result = None
  /\ report = None
  /\ panicAt = ""

--------------------------------------------------------------------------
(* check_time, first loop: one ntp_roundtrim per server *)

\* `Err(_) => println!(...)`: ntp_roundtrim returned an error through `?`;
\* its locals are dropped and the loop goes on to the next server
SkipServer ==
  /\ pc' = "for"
  /\ srv' = srv + 1
  /\ request' = None
  /\ response' = None
  /\ t1' = None
  /\ t4' = None

\* a panic unwinds main: the process is aborted
PanicIn(call) ==
  /\ pc' = "panic"
  /\ panicAt' = call

\* `for server in servers`: the next server, ntp_roundtrim's first lines
StartExchange ==
  /\ pc = "for"
  /\ srv <= Len(servers)
  /\ attempts' = Append(attempts, srv)
  /\ request' = NTPMessage_client
  /\ response' = NTPMessage_new
  /\ pc' = "bind"
  /\ UNCHANGED <<srv, now, sent, t1, t4, times, offsets, offset_weights, wi,
                 result, report, panicAt, callVars>>

\* UdpSocket::bind(LOCAL_ADDR)?
Bind ==
  /\ pc = "bind"
  /\ \E ok \in BOOLEAN :
       IF ok THEN /\ pc' = "connect"
                  /\ UNCHANGED <<srv, request, response, t1, t4>>
       ELSE SkipServer
  /\ UNCHANGED <<now, sent, times, attempts, offsets, offset_weights, wi,
                 result, report, panicAt, callVars>>

\* udp.connect(dest).expect("Unable to connect")
Connect ==
  /\ pc = "connect"
  /\ \E ok \in BOOLEAN :
       IF ok THEN pc' = "send" /\ UNCHANGED panicAt
       ELSE PanicIn("connect")
  /\ UNCHANGED <<srv, now, request, response, sent, t1, t4, times, attempts,
                 offsets, offset_weights, wi, result, report, callVars>>

\* let t1 = Utc::now(); udp.send(&request.data)?
Send ==
  /\ pc = "send"
  /\ \E ok \in BOOLEAN :
       IF ok THEN /\ t1' = now
                  /\ sent' = request
                  /\ pc' = "set_read_timeout"
                  /\ UNCHANGED <<srv, request, response, t4>>
       ELSE SkipServer /\ UNCHANGED sent
  /\ UNCHANGED <<now, times, attempts, offsets, offset_weights, wi, result,
                 report, panicAt, callVars>>

\* udp.set_read_timeout(Some(timeout))?
SetReadTimeout ==
  /\ pc = "set_read_timeout"
  /\ \E ok \in BOOLEAN :
       IF ok THEN /\ pc' = "recv_from"
                  /\ UNCHANGED <<srv, request, response, t1, t4>>
       ELSE SkipServer
  /\ UNCHANGED <<now, sent, times, attempts, offsets, offset_weights, wi,
                 result, report, panicAt, callVars>>

\* udp.recv_from(&mut response.data)? fails: the read timed out
RecvTimeout ==
  /\ pc = "recv_from"
  /\ now' = DateTimeAddMillis(now, TimeoutMillis)
  /\ SkipServer
  /\ UNCHANGED <<sent, times, attempts, offsets, offset_weights, wi, result,
                 report, panicAt, callVars>>

\* udp.recv_from(&mut response.data)? succeeds; let t4 = Utc::now()
RecvFrom ==
  /\ pc = "recv_from"
  /\ \E k \in 1..Min(NumScenarios, Len(ScenarioTable)) :
       /\ response' = ServerResponse(k, t1)
       /\ now' = DateTimeAddMillis(now, ScenarioTable[k].lat)
  /\ t4' = now'
  /\ pc' = "extract"
  /\ UNCHANGED <<srv, request, sent, t1, times, attempts, offsets,
                 offset_weights, wi, result, report, panicAt, callVars>>

\* response.rx_time().unwrap().into(): a panic when the parse or the
\* conversion fails
Extracted(parsed) ==
  IF parsed.tag # "Ok" THEN Panic ELSE DateTimeFromNTP(parsed.val)

\* the two extractions of ntp_roundtrim, t2 and then t3
Stamps(parsed) == [i \in DOMAIN parsed |-> Extracted(parsed[i])]

\* Ok(NTPResult { t1, t2, t3, t4 }) and the push in check_time, or the panic
\* of the first extraction that failed
Complete(stamps) ==
  IF stamps[1].tag # "Ok" THEN
     PanicIn("rx_time") /\ UNCHANGED <<srv, request, response, t1, t4, times>>
  ELSE IF stamps[2].tag # "Ok" THEN
     PanicIn("tx_time") /\ UNCHANGED <<srv, request, response, t1, t4, times>>
  ELSE /\ times' = Append(times, NTPResult(t1, stamps[1].val, stamps[2].val, t4))
       /\ SkipServer
       /\ UNCHANGED panicAt

\* the lines from t2 to the end of ntp_roundtrim
Extract ==
  /\ pc = "extract"
  /\ Complete(Stamps(<<rx_time(response), tx_time(response)>>))
  /\ UNCHANGED <<now, sent, attempts, offsets, offset_weights, wi, result,
                 report, callVars>>

--------------------------------------------------------------------------
(* check_time, second loop and result; main's report *)

Weighed(lists) ==
  /\ offsets' = lists.offsets
  /\ offset_weights' = lists.offset_weights

\* one iteration of `for time in &times`
Weigh ==
  /\ pc = "for"
  /\ srv > Len(servers)
  /\ wi <= Len(times)
  /\ Weighed(WeighStep([offsets |-> offsets, offset_weights |-> offset_weights],
                       times[wi]))
  /\ wi' = wi + 1
  /\ UNCHANGED <<pc, srv, now, request, response, sent, t1, t4, times, attempts,
                 result, report, panicAt, callVars>>

\* let avg_offset = weighted_mean(&offsets, &offset_weights); Ok(avg_offset)
Return ==
  /\ pc = "for"
  /\ srv > Len(servers)
  /\ wi > Len(times)
  /\ result' = Ok(weighted_mean(offsets, offset_weights))
  /\ pc' = "main"
  /\ UNCHANGED <<srv, now, request, response, sent, t1, t4, times, attempts,
                 offsets, offset_weights, wi, report, panicAt, callVars>>

\* the line is printed, or the process is aborted
Reported(out) ==
  IF out.tag = "Ok"
  THEN report' = out /\ pc' = "done" /\ UNCHANGED panicAt
  ELSE report' = None /\ PanicIn("adjust")

\* main, Action::CheckNtp, after check_time returned
Report ==
  /\ pc = "main"
  /\ Reported(CheckNtpReport(result.val, now))
  /\ UNCHANGED <<srv, now, request, response, sent, t1, t4, times, attempts,
                 offsets, offset_weights, wi, result, callVars>>

\* main with Action::CheckNtp starts; no function is examined on its own
Init ==
  /\ RunStart("for")
  /\ arg = None
  /\ op = ""
  /\ res = None

Next ==
  \/ StartExchange
  \/ Bind
  \/ Connect
  \/ Send
  \/ SetReadTimeout
  \/ RecvTimeout
  \/ RecvFrom
  \/ Extract
  \/ Weigh
  \/ Return
  \/ Report

Spec == Init /\ [][Next]_vars

--------------------------------------------------------------------------
(* Properties of a run *)

\* C1: every server is attempted once, in list order; a failed bind,
\* connect, send or timed read of one server only skips that server and
\* never aborts the run, so check_time gets to its result with every
\* server attempted.
C1_FailuresOnlySkip ==
  /\ attempts = [i \in 1..Len(attempts) |-> i]
  /\ panicAt \notin {"bind", "connect", "send", "set_read_timeout", "recv_from"}
  /\ result # None => Len(attempts) = Len(servers)

\* C2: when no sample was included, check_time returns an error and never a
\* success value that is NaN, infinite or a silent zero; a success value is
\* a finite number.
C2_NoDataIsAnError ==
  result # None =>
    IF offsets = <<>> THEN result.tag = "Err"
    ELSE result.tag = "Ok" /\ F64IsFinite(result.val)

\* the weighting loop is about to take times[wi]
AtWeigh == pc = "for" /\ srv > Len(servers) /\ wi <= Len(times)

\* the pair that times[wi] contributes
SampleOffset == F64FromZ(offset(times[wi]))
SampleWeight == Weight(F64FromZ(delay(times[wi])))

\* an iteration of the weighting loop includes the pair of the exchange
\* exactly when its delay is not 0 ms, which is exactly when the weight is
\* finite
IncludedIffDelayNonZero ==
  AtWeigh =>
    /\ F64IsFinite(SampleWeight) <=> ~ZIsZero(delay(times[wi]))
    /\ IF ZIsZero(delay(times[wi]))
       THEN offsets' = offsets /\ offset_weights' = offset_weights
       ELSE /\ offsets' = Append(offsets, SampleOffset)
            /\ offset_weights' = Append(offset_weights, SampleWeight)

\* C6: an exchange contributes an (offset, weight) pair if and only if its
\* weight 1_000_000 / delay^2 is finite: an exchange of delay 0 ms is left
\* out, any other is included once, and the two lists always have the same
\* length and hold the pairs index by index.
C6_IncludedIffFiniteWeight ==
  /\ [](Len(offsets) = Len(offset_weights) /\ Len(offsets) <= wi - 1)
  /\ [][IncludedIffDelayNonZero]_vars

\* the weighting loop has left out one exchange and included another
C6_Witness ==
  /\ wi > Len(times)
  /\ Len(times) >= 2
  /\ Len(offsets) >= 1
  /\ Len(offsets) < Len(times)

\* byte 0 is (leap << 6) | (version << 3) | mode with leap 0, version 3,
\* mode 3, and bytes 1..47 are zero
IsClientRequest(data) ==
  /\ Len(data) = 48
  /\ data[1] = (0 * 64) + (3 * 8) + 3
  /\ \A i \in 2..48 : data[i] = 0

\* C9: the request built for every exchange is 48 bytes with byte 0 equal
\* to 0b00011011 and bytes 1..47 zero, and the bytes sent are this buffer,
\* unmodified.
C9_RequestEncoding ==
  /\ request # None => IsClientRequest(request)
  /\ sent # None => IsClientRequest(sent)
  /\ pc \in {"set_read_timeout", "recv_from", "extract"} => sent = request

\* the request of the last server has been sent
C9_Witness ==
  /\ pc = "recv_from"
  /\ srv = Len(servers)
  /\ sent = request
  /\ sent[1] = 27

\* check_time's result as main takes it: check_time().unwrap() as isize
ReportedOffset == F64AsIsize(result.val)

\* C10: for every aggregate offset o returned by check_time, main reports a
\* duration of |o| milliseconds with the sign of o and the current time plus
\* o; a negative o keeps its magnitude.
C10_SignedDuration ==
  (result # None /\ pc # "main") =>
    /\ report # None
    /\ report.val.adjust = StdDurationFromMillis(ReportedOffset.mag)
    /\ ReportedOffset.neg => report.val.sign = "-"
    /\ is_positive(ReportedOffset) => report.val.sign = "+"
    /\ report.val.now =
         IF ReportedOffset.neg
         THEN DateTimeSubStd(now, StdDurationFromMillis(ReportedOffset.mag)).val
         ELSE DateTimeAddStd(now, StdDurationFromMillis(ReportedOffset.mag)).val

--------------------------------------------------------------------------
(* The functions of the program on their own, each applied to inputs drawn *)
(* from a table: arg is the input, op the function last applied (at first  *)
(* the kind of the input) and res its result.                              *)

\* 4-byte words for the timestamp fields of a response: 0, u32::MAX, the
\* seconds of 1970 (2_208_988_800), 2^31, 1 and 2^32 - 2^31 - 1
WordTable ==
  << <<0, 0, 0, 0>>, <<255, 255, 255, 255>>, <<131, 170, 126, 128>>,
     <<128, 0, 0, 0>>, <<0, 0, 0, 1>>, <<127, 255, 255, 255>> >>

NumWords == 3

\* the largest byte offset handed to parse_timestamp
MaxOffset == 48

\* self.parse_timestamp(i)
ParseTimestamp ==
  /\ op = "buffer"
  /\ res' = parse_timestamp(arg.data, arg.i)
  /\ op' = "parse_timestamp"
  /\ UNCHANGED <<arg, runVars>>

\* let t2: DateTime<Utc> = response.rx_time().unwrap().into();
RxTime ==
  /\ op = "buffer"
  /\ res' = Extracted(rx_time(arg.data))
  /\ op' = "rx_time"
  /\ UNCHANGED <<arg, runVars>>

\* let t3: DateTime<Utc> = response.tx_time().unwrap().into();
TxTime ==
  /\ op = "buffer"
  /\ res' = Extracted(tx_time(arg.data))
  /\ op' = "tx_time"
  /\ UNCHANGED <<arg, runVars>>

\* the seconds of the calendar timestamps converted: the first and the last
\* second a protocol timestamp can hold, 1970, and the start of the run
SecsTable ==
  << ZNeg(NTP_TO_UNIX_SECONDS), ZFromInt(0), StartClock.secs,
     ZSub(ZFromBig(U32_MAX), NTP_TO_UNIX_SECONDS) >>

\* 5^9: the nanoseconds n whose fraction n * 2^32 / 10^9 is a whole number
\* are the multiples of it
NanoStep == 5^9
\* the nanoseconds converted: up to MaxNanoOffset above the first
\* MaxNanoSteps multiples of NanoStep, and as far below 10^9
MaxNanoSteps == 4
MaxNanoOffset == 5

\* NTPTimestamp::from(utc)
Encode ==
  /\ op = "utc"
  /\ res' = NTPFromDateTime(arg)
  /\ op' = "encoded"
  /\ UNCHANGED <<arg, runVars>>

\* DateTime::<Utc>::from(ntp)
Decode ==
  /\ op = "encoded"
  /\ res' = DateTimeFromNTP(res)
  /\ op' = "decoded"
  /\ UNCHANGED <<arg, runVars>>

\* nanoseconds after the start of the run of the times an NTPResult is made
\* of
TimeTable == <<0, 100000000, 250000000, 1, 999999, 1500000>>

NumTimes == 4

\* time.offset() and time.delay()
Estimate ==
  /\ op = "exchange"
  /\ res' = [offset |-> offset(arg), delay |-> delay(arg), swapped |-> None]
  /\ op' = "estimate"
  /\ UNCHANGED <<arg, runVars>>

\* offset() of the result with the roles exchanged
EstimateSwapped ==
  /\ op = "estimate"
  /\ res' = [res EXCEPT !.swapped = offset(NTPResult(arg.t2, arg.t1, arg.t4, arg.t3))]
  /\ op' = "swapped"
  /\ UNCHANGED <<arg, runVars>>

\* the offset() and delay() of exchanges, in ms
SampleTable ==
  << [offset |-> 10, delay |-> 10], [offset |-> 20, delay |-> 20],
     [offset |-> 12, delay |-> 1],  [offset |-> 12, delay |-> 3],
     [offset |-> 12, delay |-> 6],  [offset |-> -7, delay |-> 4],
     [offset |-> 5,  delay |-> 0] >>

NumSamples == 5
MaxSamples == 3

\* the lists of distinct samples: what `times` can hold after the first loop
SampleLists ==
  UNION {{s \in [1..n -> 1..Min(NumSamples, Len(SampleTable))] :
             \A i, j \in 1..n : s[i] = s[j] => i = j} : n \in 1..MaxSamples}

\* the orders of n samples
Orders(n) == {p \in [1..n -> 1..n] : \A i, j \in 1..n : p[i] = p[j] => i = j}

\* `for time in &times { .. }` over exchanges with the samples ss
RECURSIVE WeighAll(_)
WeighAll(ss) ==
  IF ss = <<>> THEN [offsets |-> <<>>, offset_weights |-> <<>>]
  ELSE WeighSample(WeighAll(SubSeq(ss, 1, Len(ss) - 1)),
                   ZFromInt(SampleTable[ss[Len(ss)]].offset),
                   ZFromInt(SampleTable[ss[Len(ss)]].delay))

\* let avg_offset = weighted_mean(&offsets, &offset_weights);
Averaged(lists) == weighted_mean(lists.offsets, lists.offset_weights)

\* check_time from its second loop on
Aggregate ==
  /\ op = "samples"
  /\ res' = <<Averaged(WeighAll(arg))>>
  /\ op' = "mean"
  /\ UNCHANGED <<arg, runVars>>

\* the same for the samples in another order
AggregateReordered ==
  /\ op = "mean"
  /\ \E p \in Orders(Len(arg)) :
       res' = <<res[1], Averaged(WeighAll([i \in 1..Len(arg) |-> arg[p[i]]]))>>
  /\ op' = "reordered"
  /\ UNCHANGED <<arg, runVars>>

\* The inputs: for parse_timestamp and the extraction of t2 and t3, a 48-byte
\* response whose receive timestamp is the words w[1], w[2] and whose transmit
\* timestamp is the words w[2], w[1], and a byte offset; for the two
\* timestamp conversions, a calendar timestamp; for NTPResult::offset and
\* NTPResult::delay, an exchange of four times; for check_time's weighting
\* loop and weighted_mean, a list of samples
CallsInit ==
  /\ RunStart("idle")
  /\ res = None
  /\ \/ /\ op = "buffer"
        /\ arg \in {[data |-> <<28>> \o Zeros(31)
                                \o WordTable[w[1]] \o WordTable[w[2]]
                                \o WordTable[w[2]] \o WordTable[w[1]],
                       i |-> i] :
                      w \in [1..2 -> 1..Min(NumWords, Len(WordTable))],
                      i \in 0..MaxOffset}
     \/ /\ op = "utc"
        /\ arg \in {DateTime(SecsTable[s], n) :
                      s \in DOMAIN SecsTable,
                      n \in {k * NanoStep + j :
                               k \in 0..MaxNanoSteps, j \in 0..MaxNanoOffset}
                             \cup {NANOS_PER_SEC - 1 - j : j \in 0..MaxNanoOffset}}
     \/ /\ op = "exchange"
        /\ arg \in {NTPResult(t[1], t[2], t[3], t[4]) :
                      t \in [1..4 -> {Normalized(StartClock.secs,
                                                 StartClock.nanos + TimeTable[k]) :
                                        k \in 1..Min(NumTimes, Len(TimeTable))}]}
     \/ /\ op = "samples"
        /\ arg \in SampleLists

CallsNext ==
  \/ ParseTimestamp
  \/ RxTime
  \/ TxTime
  \/ Encode
  \/ Decode
  \/ Estimate
  \/ EstimateSwapped
  \/ Aggregate
  \/ AggregateReordered

SpecCalls == CallsInit /\ [][CallsNext]_vars

\* C3: parse_timestamp with fewer than 8 bytes left from offset i returns
\* an error value and never panics; with 8 bytes or more it returns the
\* big-endian u32 at bytes i..i+3 as seconds and the one at bytes i+4..i+7
\* as fraction.
C3_TruncatedIsAnError ==
  op = "parse_timestamp" =>
    IF arg.i + 8 > Len(arg.data) THEN res.tag = "Err"
    ELSE res = Ok(NTPTimestamp(BFromBytes(SubSeq(arg.data, arg.i + 1, arg.i + 4)),
                               BFromBytes(SubSeq(arg.data, arg.i + 5, arg.i + 8))))

\* C4: whatever the seconds and fraction in bytes 32..47 of a received
\* response, all-zero bytes included, extracting t2 and t3 and converting
\* them to calendar timestamps yields a value and never a panic: a time of
\* less than 10^9 nanoseconds, at the seconds of the field less
\* 2_208_988_800.
C4_ExtractionNeverPanics ==
  op \in {"rx_time", "tx_time"} =>
    /\ res.tag = "Ok"
    /\ res.val.nanos \in 0..(NANOS_PER_SEC - 1)
    /\ ZAdd(res.val.secs, NTP_TO_UNIX_SECONDS) =
         ZFromBig(BFromBytes(SubSeq(arg.data, IF op = "rx_time" THEN 33 ELSE 41,
                                              IF op = "rx_time" THEN 36 ELSE 44)))

\* t2 has been extracted from a response whose receive timestamp has the
\* largest fraction, 2^32 - 1
C4_Witness ==
  /\ op = "rx_time"
  /\ SubSeq(arg.data, 37, 40) = <<255, 255, 255, 255>>
  /\ res.tag = "Ok"
  /\ res.val.nanos = NANOS_PER_SEC - 1

\* C5: converting a calendar timestamp in the range of the protocol
\* timestamps to a protocol timestamp and back gives the same seconds and
\* the same nanoseconds.
C5_RoundTrip ==
  op = "decoded" => res = Ok(arg)


\* a TimeDelta of a millisecond or more
IsMillisOrMore(d) ==
  ~d.secs.neg /\ (~ZIsZero(d.secs) \/ d.nanos >= NANOS_PER_MILLI)

\* the server's timestamps are later than the local ones by the same d > 0,
\* t2 = t1 + d and t3 = t4 + d, with d of a millisecond or more so that the
\* truncation to milliseconds plays no part
ServerAhead(r) ==
  /\ DateTimeSub(r.t2, r.t1) = DateTimeSub(r.t3, r.t4)
  /\ IsMillisOrMore(DateTimeSub(r.t2, r.t1))

\* C8: when the server's timestamps are later than the local ones by the
\* same amount d > 0, offset() is positive; exchanging the local and the
\* remote roles negates offset(); when t1 = t2 = t3 = t4, offset() and
\* delay() are 0.
C8_OffsetSign ==
  /\ (op \in {"estimate", "swapped"} /\ ServerAhead(arg)) => is_positive(res.offset)
  /\ op = "swapped" => res.swapped = ZNeg(res.offset)
  /\ (op \in {"estimate", "swapped"} /\ arg.t1 = arg.t2 /\ arg.t2 = arg.t3 /\ arg.t3 = arg.t4) =>
       ZIsZero(res.offset) /\ ZIsZero(res.delay)

\* z * n for -Base <= n <= Base
ZMulInt(z, n) == IF n < 0 THEN ZNeg(ZMulSmall(z, -n)) ELSE ZMulSmall(z, n)

\* The exact sums over the included samples of ss (those of delay # 0), as
\* fractions of one denominator: sum(offset_i / delay_i^2) = num / common and
\* sum(1 / delay_i^2) = den / common
RECURSIVE ExactSums(_)
ExactSums(ss) ==
  IF ss = <<>> THEN [num |-> ZFromInt(0), den |-> ZFromInt(0), common |-> ZFromInt(1)]
  ELSE LET r == ExactSums(SubSeq(ss, 1, Len(ss) - 1))
           s == SampleTable[ss[Len(ss)]]
           q == s.delay * s.delay
       IN  IF s.delay = 0 THEN r
           ELSE [num    |-> ZAdd(ZMulSmall(r.num, q), ZMulInt(r.common, s.offset)),
                 den    |-> ZAdd(ZMulSmall(r.den, q), r.common),
                 common |-> ZMulSmall(r.common, q)]

\* the largest |offset_i| of ss
RECURSIVE MaxAbsOffset(_)
MaxAbsOffset(ss) ==
  IF ss = <<>> THEN 0
  ELSE Max(MaxAbsOffset(Tail(ss)),
           Max(SampleTable[Head(ss)].offset, -SampleTable[Head(ss)].offset))

\* |x - num / den| <= bound / 2^50, for a finite x and den > 0: both sides
\* are multiplied by den * 2^50, and by 2^-x.e when x.e < 0
CloseTo(x, num, den, bound) ==
  LET down == IF x.e < 0 THEN -x.e ELSE 0
      up   == IF x.e > 0 THEN x.e ELSE 0
      diff == ZSub(ZMake(x.s = 1, BShl(BMul(x.m, den.mag), up)),
                   ZMake(num.neg, BShl(num.mag, down)))
  IN  /\ x.k = "fin"
      /\ BCmp(BShl(diff.mag, 50),
              BShl(BMulSmall(den.mag, bound), down)) <= 0

\* every result computed so far is close to the exact weighted mean
ResultsClose ==
  \A k \in DOMAIN res :
    CloseTo(res[k], ExactSums(arg).num, ExactSums(arg).den, MaxAbsOffset(arg))

\* C7 (amended): for every non-empty list of included samples, check_time's
\* result is sum(offset_i * weight_i) / sum(weight_i), weight_i =
\* 1_000_000 / delay_i^2, evaluated in f64 in the order of the list: it is
\* within max|offset_i| / 2^50 of the exact weighted mean, it is the same for
\* both orders of two samples, and for (offset=10, delay=10), (offset=20,
\* delay=20) it is exactly 12.
C7_WeightedMeanRounded ==
  op \in {"mean", "reordered"} =>
    /\ ResultsClose
    /\ (op = "reordered" /\ Len(arg) <= 2) => res[1] = res[2]
    /\ arg = <<1, 2>> => res[1] = F64FromBig(BFromInt(12))

\* three samples have been averaged in two orders with two results
C7_Witness ==
  /\ op = "reordered"
  /\ Len(arg) = 3
  /\ res[1] # res[2]

\* C7: check_time's result, sum(offset_i * weight_i) / sum(weight_i), is
\* independent of the order of the samples, and is exactly 12 for
\* (offset=10, delay=10), (offset=20, delay=20).
C7_OrderIndependent ==
  op \in {"mean", "reordered"} =>
    /\ op = "reordered" => res[1] = res[2]
    /\ arg = <<1, 2>> => res[1] = F64FromBig(BFromInt(12))

====
